---- MODULE Spec2Model ----
(***************************************************************************)
(* Model of the PDF module-handbook miner (src/pdf_extractor.py) and of    *)
(* the part of the graph builder that consumes its records                 *)
(* (src/rdf_builder.py).                                                   *)
(*                                                                         *)
(* A text is a sequence of one-character strings; positions in the model   *)
(* are 1-based, Python offsets are 0-based (offset = position - 1).        *)
(* Regular expressions are matched by a backtracking matcher with the      *)
(* priorities of Python's re module (greedy and lazy repetition, ordered   *)
(* alternation, lookahead, leftmost match).                                *)
(***************************************************************************)
EXTENDS Integers, Sequences, FiniteSets, TLC

(***************************************************************************)
(* Characters                                                              *)
(***************************************************************************)
NL == "\n"
TAB == "\t"

UpperLetters ==
  <<"A","B","C","D","E","F","G","H","I","J","K","L","M","N","O","P","Q","R",
    "S","T","U","V","W","X","Y","Z","Ü">>
LowerLetters ==
  <<"a","b","c","d","e","f","g","h","i","j","k","l","m","n","o","p","q","r",
    "s","t","u","v","w","x","y","z","ü">>
UpperSet == {UpperLetters[i] : i \in 1..Len(UpperLetters)}
LowerMap ==
  [c \in UpperSet |->
     LowerLetters[CHOOSE i \in 1..Len(UpperLetters) : UpperLetters[i] = c]]

\* case folding applied by re.IGNORECASE
Fold(c) == IF c \in UpperSet THEN LowerMap[c] ELSE c

Digits == {"0","1","2","3","4","5","6","7","8","9"}
Whitespace == {" ", NL, TAB}
AsciiLetters ==
  {UpperLetters[i] : i \in 1..26} \cup {LowerLetters[i] : i \in 1..26}

\* the character classes used by the patterns of the source
InClass(cls, c) ==
  CASE cls = "sep"      -> c = ":" \/ c \in Whitespace        \* [:\s]
    [] cls = "notnl"    -> c # NL                             \* [^\n]
    [] cls = "digit"    -> c \in Digits                       \* \d
    [] cls = "space"    -> c \in Whitespace                   \* \s
    [] cls = "dotcomma" -> c \in {".", ","}                   \* [.,]
    [] cls = "AZ"       -> c \in AsciiLetters                 \* [A-Z], IGNORECASE
    [] cls = "notcolon" -> c # ":"                            \* [^:]

(***************************************************************************)
(* Regular expressions: a pattern is a sequence of elements                *)
(***************************************************************************)
NoSub == <<>>
Lit(s)        == [t |-> "lit",  s |-> s,    c |-> "", min |-> 0, sub |-> NoSub]
Plus(cls)     == [t |-> "rep",  s |-> <<>>, c |-> cls, min |-> 1, sub |-> NoSub]
Star(cls)     == [t |-> "rep",  s |-> <<>>, c |-> cls, min |-> 0, sub |-> NoSub]
One(cls)      == [t |-> "one",  s |-> <<>>, c |-> cls, min |-> 1, sub |-> NoSub]
Opt(re)       == [t |-> "opt",  s |-> <<>>, c |-> "", min |-> 0, sub |-> <<re>>]
LazyStar(re)  == [t |-> "lazy", s |-> <<>>, c |-> "", min |-> 0, sub |-> <<re>>]
Alt(res)      == [t |-> "alt",  s |-> <<>>, c |-> "", min |-> 0, sub |-> res]
Look(res)     == [t |-> "look", s |-> <<>>, c |-> "", min |-> 0, sub |-> res]
Eol           == [t |-> "eol",  s |-> <<>>, c |-> "", min |-> 0, sub |-> NoSub]
GroupOpen     == [t |-> "gs",   s |-> <<>>, c |-> "", min |-> 0, sub |-> NoSub]
GroupClose    == [t |-> "ge",   s |-> <<>>, c |-> "", min |-> 0, sub |-> NoSub]

\* a match: pos is the position after the match, start its first position,
\* gs/ge delimit group 1 (gs = 0: the group did not take part)
Fail == [start |-> 0, pos |-> 0, gs |-> 0, ge |-> 0]

Max(S) == CHOOSE x \in S : \A y \in S : y <= x
Min(S) == CHOOSE x \in S : \A y \in S : x <= y

\* the literal s stands at position pos of text, ignoring case
LitAt(s, text, pos) ==
  /\ pos + Len(s) - 1 <= Len(text)
  /\ \A i \in 1..Len(s) : Fold(text[pos + i - 1]) = Fold(s[i])

\* number of consecutive characters of class cls from position pos
RunLen(cls, text, pos) ==
  Min({q \in pos..Len(text) : ~InClass(cls, text[q])} \cup {Len(text) + 1}) - pos

\* $ under re.MULTILINE: end of text or just before a newline
AtEol(text, pos) == pos = Len(text) + 1 \/ text[pos] = NL

RECURSIVE Match(_, _, _)
\* first match, in backtracking order, of the element sequence re at state st
Match(re, text, st) ==
  IF re = <<>> THEN st
  ELSE
    LET e == Head(re)
        rest == Tail(re)
        pos == st.pos
        at(p) == [st EXCEPT !.pos = p]
    IN
    CASE e.t = "lit" ->
           IF LitAt(e.s, text, pos) THEN Match(rest, text, at(pos + Len(e.s)))
           ELSE Fail
      [] e.t = "one" ->
           IF pos <= Len(text) /\ InClass(e.c, text[pos])
           THEN Match(rest, text, at(pos + 1)) ELSE Fail
      [] e.t = "rep" ->
           \* greedy: the longest run first, then shorter ones
           LET mx == RunLen(e.c, text, pos)
               top == Match(rest, text, at(pos + mx))
               ok == {n \in e.min..(mx - 1) : Match(rest, text, at(pos + n)) # Fail}
           IN IF mx < e.min THEN Fail
              ELSE IF top # Fail THEN top
              ELSE IF ok = {} THEN Fail
              ELSE Match(rest, text, at(pos + Max(ok)))
      [] e.t = "opt" ->
           LET with == Match(e.sub[1] \o rest, text, st)
           IN IF with # Fail THEN with ELSE Match(rest, text, st)
      [] e.t = "lazy" ->
           \* lazy: zero iterations first, then one more
           LET without == Match(rest, text, st)
           IN IF without # Fail THEN without
              ELSE Match(e.sub[1] \o re, text, st)
      [] e.t = "alt" ->
           LET hits == {k \in 1..Len(e.sub) : Match(e.sub[k] \o rest, text, st) # Fail}
           IN IF hits = {} THEN Fail
              ELSE Match(e.sub[Min(hits)] \o rest, text, st)
      [] e.t = "look" ->
           IF \E k \in 1..Len(e.sub) : Match(e.sub[k], text, st) # Fail
           THEN Match(rest, text, st) ELSE Fail
      [] e.t = "eol" ->
           IF AtEol(text, pos) THEN Match(rest, text, st) ELSE Fail
      [] e.t = "gs" -> Match(rest, text, [st EXCEPT !.gs = pos])
      [] e.t = "ge" -> Match(rest, text, [st EXCEPT !.ge = pos])

\* the match of re that starts exactly at position p, or Fail
MatchAt(re, text, p) ==
  Match(re, text, [start |-> p, pos |-> p, gs |-> 0, ge |-> 0])

\* re.search from position from: the leftmost match
SearchFrom(re, text, from) ==
  LET starts == {p \in from..(Len(text) + 1) : MatchAt(re, text, p) # Fail}
  IN IF starts = {} THEN Fail ELSE MatchAt(re, text, Min(starts))

Search(re, text) == SearchFrom(re, text, 1)

RECURSIVE FindIterFrom_Overlapping(_, _, _)
\* faulty variant: the scan resumes one character behind the start of a match
FindIterFrom_Overlapping(re, text, from) ==
  LET m == SearchFrom(re, text, from)
  IN IF from > Len(text) + 1 \/ m = Fail THEN <<>>
     ELSE <<m>> \o FindIterFrom_Overlapping(re, text, m.start + 1)

RECURSIVE FindIterFrom(_, _, _)
\* re.finditer: the successive non-overlapping leftmost matches
FindIterFrom(re, text, from) ==
  LET m == SearchFrom(re, text, from)
  IN IF from > Len(text) + 1 \/ m = Fail THEN <<>>
     ELSE <<m>> \o FindIterFrom(re, text, IF m.pos > m.start THEN m.pos ELSE m.pos + 1)

FindIter(re, text) == FindIterFrom(re, text, 1)

\* match.group(1) if the pattern has a group, else match.group(0)
Group(text, m) ==
  IF m.gs # 0 THEN SubSeq(text, m.gs, m.ge - 1)
  ELSE SubSeq(text, m.start, m.pos - 1)

(***************************************************************************)
(* String helpers                                                          *)
(***************************************************************************)
\* str.lstrip(): from the first non-whitespace character on
LStrip(s) ==
  SubSeq(s, Min({k \in 1..Len(s) : s[k] \notin Whitespace} \cup {Len(s) + 1}),
         Len(s))

\* str.rstrip(): up to the last non-whitespace character
RStrip(s) ==
  SubSeq(s, 1, Max({k \in 1..Len(s) : s[k] \notin Whitespace} \cup {0}))

\* str.strip()
Strip(s) == LStrip(RStrip(s))

RECURSIVE Collapse(_)
\* re.sub(r'\s+', ' ', s): the two halves are collapsed and a whitespace
\* run that crosses the middle gives one blank
Collapse(s) ==
  IF s = <<>> THEN <<>>
  ELSE IF Len(s) = 1
       THEN IF s[1] \in Whitespace THEN <<" ">> ELSE s
       ELSE LET h == Len(s) \div 2
                l == Collapse(SubSeq(s, 1, h))
                r == Collapse(SubSeq(s, h + 1, Len(s)))
            IN  IF l[Len(l)] = " " /\ r[1] = " " THEN l \o Tail(r) ELSE l \o r

\* text[a:b] for Python offsets a, b with 0 <= a
Slice(text, a, b) == SubSeq(text, a + 1, IF b < Len(text) THEN b ELSE Len(text))

(***************************************************************************)
(* The pattern table                                                       *)
(***************************************************************************)
K_Modul == <<"M","o","d","u","l">>
K_Modulbezeichnung == <<"M","o","d","u","l","b","e","z","e","i","c","h","n","u","n","g">>
K_Modulname == <<"M","o","d","u","l","n","a","m","e">>
K_ECTS == <<"E","C","T","S">>
K_Leistungspunkte == <<"L","e","i","s","t","u","n","g","s","p","u","n","k","t","e">>
K_Credit == <<"C","r","e","d","i","t">>
K_Points == <<"P","o","i","n","t","s">>
K_LP == <<"L","P">>
K_Semester == <<"S","e","m","e","s","t","e","r">>
K_Studienjahr == <<"S","t","u","d","i","e","n","j","a","h","r">>
K_Veranstaltungsart == <<"V","e","r","a","n","s","t","a","l","t","u","n","g","s","a","r","t">>
K_Art == <<"A","r","t">>
K_Vorlesung == <<"V","o","r","l","e","s","u","n","g">>
K_Uebung == <<"Ü","b","u","n","g">>
K_Seminar == <<"S","e","m","i","n","a","r">>
K_Praktikum == <<"P","r","a","k","t","i","k","u","m">>
K_Projekt == <<"P","r","o","j","e","k","t">>
K_Sprache == <<"S","p","r","a","c","h","e">>
K_Language == <<"L","a","n","g","u","a","g","e">>
K_Voraussetzungen == <<"V","o","r","a","u","s","s","e","t","z","u","n","g","e","n">>
K_Prerequisites == <<"P","r","e","r","e","q","u","i","s","i","t","e","s">>
K_Vorkenntnisse == <<"V","o","r","k","e","n","n","t","n","i","s","s","e">>
K_Inhalt == <<"I","n","h","a","l","t">>
K_Inhalte == <<"I","n","h","a","l","t","e">>
K_Content == <<"C","o","n","t","e","n","t">>
K_Lernziele == <<"L","e","r","n","z","i","e","l","e">>
K_Learning == <<"L","e","a","r","n","i","n","g">>
K_Objectives == <<"O","b","j","e","c","t","i","v","e","s">>
K_Ziele == <<"Z","i","e","l","e">>
K_Pruefung == <<"P","r","ü","f","u","n","g">>
K_Pruefungsform == <<"P","r","ü","f","u","n","g","s","f","o","r","m">>
K_Examination == <<"E","x","a","m","i","n","a","t","i","o","n">>

\* label[:\s]+([^\n]+)
LineCapture(label) ==
  label \o <<Plus("sep"), GroupOpen, Plus("notnl"), GroupClose>>

\* label[:\s]+(\d+(?:[.,]\d+)?)
NumberCapture(label) ==
  label \o <<Plus("sep"), GroupOpen, Plus("digit"),
             Opt(<<One("dotcomma"), Plus("digit")>>), GroupClose>>

\* label[:\s]+(\d+)
IntCapture(label) ==
  label \o <<Plus("sep"), GroupOpen, Plus("digit"), GroupClose>>

\* label[:\s]+([^\n]+(?:\n[^\n]+)*?)(?=\n[A-Z][^:]+:|$)
BlockCapture(label) ==
  label \o <<Plus("sep"), GroupOpen, Plus("notnl"),
             LazyStar(<<Lit(<<NL>>), Plus("notnl")>>), GroupClose,
             Look(<< <<Lit(<<NL>>), One("AZ"), Plus("notcolon"), Lit(<<":">>)>>,
                     <<Eol>> >>)>>

Fields ==
  <<"modul_name", "ects", "semester", "veranstaltungsart", "sprache",
    "voraussetzungen", "inhalte", "lernziele", "prüfung">>

MODULE_PATTERNS ==
  ("modul_name" :>
     << LineCapture(<<Lit(K_Modul)>>),
        LineCapture(<<Lit(K_Modulbezeichnung)>>),
        LineCapture(<<Lit(K_Modulname)>>) >>)
  @@ ("ects" :>
     << NumberCapture(<<Lit(K_ECTS)>>),
        NumberCapture(<<Lit(K_Leistungspunkte)>>),
        NumberCapture(<<Lit(K_Credit), Plus("space"), Lit(K_Points)>>),
        NumberCapture(<<Lit(K_LP)>>) >>)
  @@ ("semester" :>
     << <<GroupOpen, Plus("digit"), Opt(<<Lit(<<".">>)>>), Star("space"),
          Lit(K_Semester), GroupClose>>,
        IntCapture(<<Lit(K_Semester)>>),
        IntCapture(<<Lit(K_Studienjahr)>>) >>)
  @@ ("veranstaltungsart" :>
     << LineCapture(<<Lit(K_Veranstaltungsart)>>),
        LineCapture(<<Lit(K_Art)>>),
        <<GroupOpen,
          Alt(<< <<Lit(K_Vorlesung)>>, <<Lit(K_Uebung)>>, <<Lit(K_Seminar)>>,
                 <<Lit(K_Praktikum)>>, <<Lit(K_Projekt)>> >>),
          GroupClose>> >>)
  @@ ("sprache" :>
     << LineCapture(<<Lit(K_Sprache)>>),
        LineCapture(<<Lit(K_Language)>>) >>)
  @@ ("voraussetzungen" :>
     << BlockCapture(<<Lit(K_Voraussetzungen)>>),
        BlockCapture(<<Lit(K_Prerequisites)>>),
        BlockCapture(<<Lit(K_Vorkenntnisse)>>) >>)
  @@ ("inhalte" :>
     << BlockCapture(<<Lit(K_Inhalt)>>),
        BlockCapture(<<Lit(K_Inhalte)>>),
        BlockCapture(<<Lit(K_Content)>>) >>)
  @@ ("lernziele" :>
     << BlockCapture(<<Lit(K_Lernziele)>>),
        BlockCapture(<<Lit(K_Learning), Plus("space"), Lit(K_Objectives)>>),
        BlockCapture(<<Lit(K_Ziele)>>) >>)
  @@ ("prüfung" :>
     << BlockCapture(<<Lit(K_Pruefung)>>),
        LineCapture(<<Lit(K_Pruefungsform)>>),
        BlockCapture(<<Lit(K_Examination)>>) >>)

\* r'Modul[:\s]+([^\n]+)' as compiled by find_module_blocks
modul_start_pattern == LineCapture(<<Lit(K_Modul)>>)

\* r'ECTS[:\s]+(\d+(?:[.,]\d+)?)' as compiled by find_module_blocks
ects_pattern == NumberCapture(<<Lit(K_ECTS)>>)

(***************************************************************************)
(* extract_module_info                                                     *)
(***************************************************************************)
\* Python's None among the string values of a record
None == <<"None">>

\* truth value of an optional string: None and '' are false
Truthy(v) == v # None /\ v # <<>>

\* block_text[:2000]
RawTextCap == 2000

\* width of the backward window of the proximity strategy
ContextWindow == 500

RECURSIVE ReplacePairs(_)
\* one pass that replaces each pair of whitespace characters by one space
ReplacePairs(s) ==
  IF Len(s) < 2 THEN s
  ELSE IF s[1] \in Whitespace /\ s[2] \in Whitespace
       THEN <<" ">> \o ReplacePairs(SubSeq(s, 3, Len(s)))
       ELSE <<s[1]>> \o ReplacePairs(Tail(s))

\* faulty variant: the whitespace is reduced by one pass over pairs
Normalize_Pairs(value) == ReplacePairs(Strip(value))

\* the normalization of a captured value: strip(), then re.sub(r'\s+', ' ')
Normalize(value) == Collapse(Strip(value))

\* one pattern applied to the block: the stripped, whitespace-collapsed
\* capture of its leftmost match, None when it does not match
PatternValue(pattern, block_text) ==
  LET m == Search(pattern, block_text)
  IN IF m = Fail THEN None ELSE Normalize(Group(block_text, m))

RECURSIVE PatternsTried(_, _, _)
\* the indices of the patterns the inner loop evaluates, from the k-th on:
\* the loop ends behind the first pattern with a non-empty value
PatternsTried(patterns, k, block_text) ==
  IF k > Len(patterns) THEN <<>>
  ELSE LET value == PatternValue(patterns[k], block_text)
       IN IF value # None /\ Len(value) > 0 THEN <<k>>
          ELSE <<k>> \o PatternsTried(patterns, k + 1, block_text)

RECURSIVE ScanPatterns_NoBreak(_, _, _, _)
\* faulty variant: the loop does not stop at the first non-empty value
ScanPatterns_NoBreak(patterns, k, block_text, current) ==
  IF k > Len(patterns) THEN current
  ELSE LET value == PatternValue(patterns[k], block_text)
       IN ScanPatterns_NoBreak(patterns, k + 1, block_text,
            IF value # None /\ Len(value) > 0 THEN value ELSE current)

RECURSIVE ScanPatterns_BreakOnMatch(_, _, _, _)
\* faulty variant: the first pattern that matches ends the loop, also with
\* an empty value
ScanPatterns_BreakOnMatch(patterns, k, block_text, current) ==
  IF k > Len(patterns) THEN current
  ELSE LET value == PatternValue(patterns[k], block_text)
       IN IF value # None
          THEN (IF Len(value) > 0 THEN value ELSE current)
          ELSE ScanPatterns_BreakOnMatch(patterns, k + 1, block_text, current)

RECURSIVE ScanPatterns(_, _, _, _)
\* the inner loop over the patterns of one field, from the k-th pattern on:
\* the first non-empty value ends the loop, otherwise the field keeps current
ScanPatterns(patterns, k, block_text, current) ==
  IF k > Len(patterns) THEN current
  ELSE LET value == PatternValue(patterns[k], block_text)
       IN IF value # None /\ Len(value) > 0 THEN value
          ELSE ScanPatterns(patterns, k + 1, block_text, current)

\* faulty variant: the seed is dropped
InitialValue_NoSeed(field, default_name) == None

\* the value a field has before the patterns are tried
InitialValue(field, default_name) ==
  IF field = "modul_name" THEN default_name ELSE None

\* faulty variant: a non-empty seed is never overwritten
FieldValue_SeedFirst(field, block_text, default_name) ==
  IF field = "modul_name" /\ Truthy(default_name) THEN default_name
  ELSE ScanPatterns(MODULE_PATTERNS[field], 1, block_text,
                    InitialValue(field, default_name))

\* the value of one field after the loop over its patterns
FieldValue(field, block_text, default_name) ==
  ScanPatterns(MODULE_PATTERNS[field], 1, block_text,
               InitialValue(field, default_name))

FieldSet == {Fields[k] : k \in 1..Len(Fields)}

\* faulty variant: the whole block is kept
RawText_Whole(block_text) == block_text

\* 'raw_text': block_text[:2000]
RawText(block_text) == Slice(block_text, 0, RawTextCap)

\* faulty variant: an unseeded field without a value is stored as ''
ModuleInfo_EmptyAbsent(block_text, default_name) ==
  [f \in FieldSet \cup {"raw_text"} |->
     IF f = "raw_text" THEN RawText(block_text)
     ELSE LET value == FieldValue(f, block_text, default_name)
          IN IF f # "modul_name" /\ value = None THEN <<>> ELSE value]

\* the dictionary module_info after the loop over MODULE_PATTERNS
ModuleInfo(block_text, default_name) ==
  [f \in FieldSet \cup {"raw_text"} |->
     IF f = "raw_text" THEN RawText(block_text)
     ELSE FieldValue(f, block_text, default_name)]

\* faulty variant: a field counts as found as soon as it is not None
Accepted_NotNone(module_info) ==
  module_info["modul_name"] # None \/ module_info["ects"] # None

\* the condition under which module_info is returned
Accepted(module_info) ==
  Truthy(module_info["modul_name"]) \/ Truthy(module_info["ects"])

\* <<module_info>>, or <<>> when the function returns None
extract_module_info(block_text, default_name) ==
  LET module_info == ModuleInfo(block_text, default_name)
  IN IF Accepted(module_info) THEN <<module_info>> ELSE <<>>

(***************************************************************************)
(* find_module_blocks                                                      *)
(***************************************************************************)
\* strategy 1: one candidate per match of the marker pattern in the text
DirectCandidates(text) ==
  LET modul_starts == FindIter(modul_start_pattern, text)
  IN [k \in 1..Len(modul_starts) |->
        [position |-> modul_starts[k].start - 1,
         type |-> "modul_keyword",
         name |-> Strip(Group(text, modul_starts[k]))]]

\* the marker match the proximity strategy takes from the window
WindowMatch(context_before) == Search(modul_start_pattern, context_before)

\* faulty variant: the offset inside the window is taken for the position
ProximityCandidate_Unshifted(text, match) ==
  LET ects_offset == match.start - 1
      start_pos == IF ects_offset - ContextWindow > 0
                   THEN ects_offset - ContextWindow ELSE 0
      context_before == Slice(text, start_pos, ects_offset)
      modul_in_context == WindowMatch(context_before)
  IN IF modul_in_context = Fail THEN <<>>
     ELSE << [position |-> modul_in_context.start - 1,
              type |-> "ects_near_modul",
              name |-> Strip(Group(context_before, modul_in_context))] >>

\* faulty variant: without a marker in the window the ECTS occurrence itself
\* becomes a candidate
ProximityCandidate_AtEcts(text, match) ==
  LET ects_offset == match.start - 1
      start_pos == IF ects_offset - ContextWindow > 0
                   THEN ects_offset - ContextWindow ELSE 0
      context_before == Slice(text, start_pos, ects_offset)
      modul_in_context == WindowMatch(context_before)
  IN IF modul_in_context = Fail
     THEN << [position |-> ects_offset, type |-> "ects_near_modul",
              name |-> None] >>
     ELSE << [position |-> start_pos + (modul_in_context.start - 1),
              type |-> "ects_near_modul",
              name |-> Strip(Group(context_before, modul_in_context))] >>

\* strategy 2, for one ECTS match: <<candidate>> or <<>>
ProximityCandidate(text, match) ==
  LET ects_offset == match.start - 1
      start_pos == IF ects_offset - ContextWindow > 0
                   THEN ects_offset - ContextWindow ELSE 0
      context_before == Slice(text, start_pos, ects_offset)
      modul_in_context == WindowMatch(context_before)
  IN IF modul_in_context = Fail THEN <<>>
     ELSE << [position |-> start_pos + (modul_in_context.start - 1),
              type |-> "ects_near_modul",
              name |-> Strip(Group(context_before, modul_in_context))] >>

RECURSIVE InsertByPosition_Unique(_, _)
\* faulty variant: x is dropped when its position is already taken
InsertByPosition_Unique(sorted, x) ==
  IF sorted = <<>> THEN <<x>>
  ELSE IF sorted[Len(sorted)].position = x.position THEN sorted
  ELSE IF sorted[Len(sorted)].position < x.position THEN Append(sorted, x)
  ELSE Append(InsertByPosition_Unique(SubSeq(sorted, 1, Len(sorted) - 1), x),
              sorted[Len(sorted)])

RECURSIVE InsertByPosition(_, _)
\* x placed behind every element whose position is not larger (stable)
InsertByPosition(sorted, x) ==
  IF sorted = <<>> THEN <<x>>
  ELSE IF sorted[Len(sorted)].position <= x.position THEN Append(sorted, x)
  ELSE Append(InsertByPosition(SubSeq(sorted, 1, Len(sorted) - 1), x),
              sorted[Len(sorted)])

\* faulty variant: the list is left in the order the strategies filled it
SortByPosition_Unsorted(starts) == starts

RECURSIVE SortByPosition(_)
\* list.sort(key=position): ascending and stable
SortByPosition(starts) ==
  IF starts = <<>> THEN <<>>
  ELSE InsertByPosition(SortByPosition(SubSeq(starts, 1, Len(starts) - 1)),
                        starts[Len(starts)])

\* start and end offset of the k-th block
BlockStart(starts, k) == starts[k].position
\* faulty variant: every block runs to the end of the text
BlockEnd_ToEnd(starts, k, text) == Len(text)

BlockEnd(starts, k, text) ==
  IF k + 1 <= Len(starts) THEN starts[k + 1].position ELSE Len(text)
BlockText(starts, k, text) ==
  Slice(text, BlockStart(starts, k), BlockEnd(starts, k, text))

(***************************************************************************)
(* extract_courses_from_json, PDF modules                                  *)
(***************************************************************************)
DigitChars == <<"0","1","2","3","4","5","6","7","8","9">>
DigitValue(c) == (CHOOSE k \in 1..10 : DigitChars[k] = c) - 1

RECURSIVE DecimalValue(_)
DecimalValue(s) ==
  IF s = <<>> THEN 0
  ELSE 10 * DecimalValue(SubSeq(s, 1, Len(s) - 1)) + DigitValue(s[Len(s)])

\* int(s) inside try/except (ValueError, TypeError): <<n>>, or <<>> when
\* the conversion raises
IntOrNone(s) ==
  IF s # <<>> /\ \A k \in 1..Len(s) : s[k] \in Digits
  THEN <<DecimalValue(s)>> ELSE <<>>

Umlauts == ("ä" :> <<"a","e">>) @@ ("ö" :> <<"o","e">>) @@ ("ü" :> <<"u","e">>)
        @@ ("Ä" :> <<"A","e">>) @@ ("Ö" :> <<"O","e">>) @@ ("Ü" :> <<"U","e">>)
        @@ ("ß" :> <<"s","s">>)

RECURSIVE normalize_name(_)
\* umlauts replaced, then every character outside [a-zA-Z0-9_] removed
normalize_name(name) ==
  IF name = <<>> THEN <<>>
  ELSE LET c == Head(name)
       IN (IF c \in DOMAIN Umlauts THEN Umlauts[c]
           ELSE IF c \in AsciiLetters \cup Digits \cup {"_"} THEN <<c>>
           ELSE <<>>) \o normalize_name(Tail(name))

PseudoIdLen == 50

\* faulty variant: a module without a name is kept as well
CourseEntry_KeepAll(module) ==
  LET modul_name == module["modul_name"]
      ects_raw == module["ects"]
      ects == IF Truthy(ects_raw) THEN IntOrNone(ects_raw) ELSE <<>>
  IN << [id |-> <<"P","D","F","_">>
                 \o (IF Truthy(modul_name)
                     THEN normalize_name(Slice(modul_name, 0, PseudoIdLen))
                     ELSE <<"M","o","d","u","l","e">>),
         titel |-> modul_name,
         ects |-> ects,
         dozenten |-> <<>>] >>

\* the course entry of one PDF module: <<entry>>, or <<>> without a name
CourseEntry(module) ==
  LET modul_name == module["modul_name"]
      ects_raw == module["ects"]
      ects == IF Truthy(ects_raw) THEN IntOrNone(ects_raw) ELSE <<>>
  IN IF Truthy(modul_name)
     THEN << [id |-> <<"P","D","F","_">>
                      \o normalize_name(Slice(modul_name, 0, PseudoIdLen)),
              titel |-> modul_name,
              ects |-> ects,
              dozenten |-> <<>>] >>
     ELSE <<>>

RECURSIVE CourseEntries(_)
CourseEntries(mods) ==
  IF mods = <<>> THEN <<>>
  ELSE CourseEntry(Head(mods)) \o CourseEntries(Tail(mods))

(***************************************************************************)
(* find_module_blocks as a function of the text                            *)
(***************************************************************************)
RECURSIVE ProximityCandidates(_, _, _)
\* the second loop, from the k-th ECTS match on
ProximityCandidates(text, ects_matches, k) ==
  IF k > Len(ects_matches) THEN <<>>
  ELSE ProximityCandidate(text, ects_matches[k])
       \o ProximityCandidates(text, ects_matches, k + 1)

\* potential_starts after the sort
Candidates(text) ==
  SortByPosition(DirectCandidates(text)
                 \o ProximityCandidates(text, FindIter(ects_pattern, text), 1))

RECURSIVE BlockRecords(_, _, _)
\* the third loop, from the k-th candidate on
BlockRecords(starts, k, text) ==
  IF k > Len(starts) THEN <<>>
  ELSE extract_module_info(BlockText(starts, k, text), starts[k].name)
       \o BlockRecords(starts, k + 1, text)

find_module_blocks(text) == BlockRecords(Candidates(text), 1, text)

(***************************************************************************)
(* extract_from_pdf and run_pdf_extraction                                 *)
(***************************************************************************)
\* sum(1 for m in modules if m.get(field))
CountWith(modules, field) ==
  Cardinality({k \in 1..Len(modules) : Truthy(modules[k][field])})

\* faulty variant: the two counters filled from the wrong fields
Statistics_Swapped(modules) ==
  [total_modules_found |-> Len(modules),
   modules_with_ects |-> CountWith(modules, "modul_name"),
   modules_with_name |-> CountWith(modules, "ects")]

\* the three counters of a result
Statistics(modules) ==
  [total_modules_found |-> Len(modules),
   modules_with_ects |-> CountWith(modules, "ects"),
   modules_with_name |-> CountWith(modules, "modul_name")]

\* the result as created before the try block
EmptyResult(pdf_path) ==
  [source_file |-> pdf_path,
   modules |-> <<>>,
   statistics |-> [total_modules_found |-> 0, modules_with_ects |-> 0,
                   modules_with_name |-> 0]]

\* faulty variant: the result always carries an 'error' key
FilledResult_ErrorKey(pdf_path, modules) ==
  [source_file |-> pdf_path,
   modules |-> modules,
   statistics |-> Statistics(modules),
   error |-> ""]

\* the result after find_module_blocks returned modules
FilledResult(pdf_path, modules) ==
  [source_file |-> pdf_path,
   modules |-> modules,
   statistics |-> Statistics(modules)]

\* the result of the except branch: the initial result plus the message
FailedResult(pdf_path, message) ==
  [source_file |-> pdf_path,
   modules |-> <<>>,
   statistics |-> [total_modules_found |-> 0, modules_with_ects |-> 0,
                   modules_with_name |-> 0],
   error |-> message]

\* the early return for a path that does not exist
NotFoundResult(pdf_path) ==
  [source_file |-> pdf_path, error |-> "Datei nicht gefunden"]

\* a document: whether the file exists, whether the text extraction
\* succeeds, and the extracted text
MissingDocument == [exists |-> FALSE, readable |-> FALSE, text |-> <<>>]
UnreadableDocument == [exists |-> TRUE, readable |-> FALSE, text |-> <<>>]
ReadableDocument(t) == [exists |-> TRUE, readable |-> TRUE, text |-> t]

\* extract_from_pdf for the document found at pdf_path
extract_from_pdf(pdf_path, document) ==
  IF ~document.exists THEN NotFoundResult(pdf_path)
  ELSE IF ~document.readable
       THEN FailedResult(pdf_path, "Fehler beim Extrahieren von Text aus PDF")
       ELSE FilledResult(pdf_path, find_module_blocks(document.text))

\* faulty variant: only results without an error are stored
StoreResult_SkipErrors(results, pdf_file, extracted_data) ==
  IF "error" \in DOMAIN extracted_data THEN results
  ELSE [p \in DOMAIN results \cup {pdf_file} |->
          IF p = pdf_file THEN extracted_data ELSE results[p]]

\* results[pdf_file] = extracted_data
StoreResult(results, pdf_file, extracted_data) ==
  [p \in DOMAIN results \cup {pdf_file} |->
     IF p = pdf_file THEN extracted_data ELSE results[p]]

\* the dictionary run_pdf_extraction returns
PdfExtractionResult(results) ==
  [source |-> "pdf_extractor",
   data |-> results,
   count |-> Cardinality(DOMAIN results)]

(***************************************************************************)
(* convert_json_to_rdf, reduced to the instance triples of the courses     *)
(***************************************************************************)
\* int(ects) succeeds for the value of a course entry
IntCoercible(ects) == ects \in Int

\* the entries that are not skipped
Kept(json_data) ==
  {k \in 1..Len(json_data) :
     json_data[k].id # <<>> /\ json_data[k].titel # <<>>}

\* the instance triples, one relation per predicate
convert_json_to_rdf(json_data) ==
  [Veranstaltung |-> {json_data[k].id : k \in Kept(json_data)},
   hatTitel |-> {<<json_data[k].id, json_data[k].titel>> : k \in Kept(json_data)},
   hatECTS |-> {<<json_data[k].id, json_data[k].ects[1]>> :
                  k \in {n \in Kept(json_data) :
                           /\ json_data[n].ects # <<>>
                           /\ IntCoercible(json_data[n].ects[1])}}]

RECURSIVE ConversionWarnings(_)
\* the warnings convert_json_to_rdf prints, in order
ConversionWarnings(json_data) ==
  IF json_data = <<>> THEN <<>>
  ELSE LET entry == Head(json_data)
       IN (IF /\ entry.id # <<>> /\ entry.titel # <<>>
              /\ entry.ects # <<>>
              /\ ~IntCoercible(entry.ects[1])
           THEN <<"Warning: Could not convert ECTS value">> ELSE <<>>)
          \o ConversionWarnings(Tail(json_data))

(***************************************************************************)
(* Input texts                                                             *)
(***************************************************************************)
\* number of lines of a generated text
MaxLines == 3

\* length of the long marker-free filler (longer than the window)
LongFill == 501

Line_ModulA    == <<"M","o","d","u","l",":"," ","A">>
Line_ModulOnly == <<"M","o","d","u","l",":"," ">>
Line_Ects75    == <<"E","C","T","S",":"," ","7",",","5">>
Line_Inhalt    == <<"I","n","h","a","l","t",":"," ","f","o","o">>
Line_Bar       == <<"b","a","r">>

LineSet ==
  {Line_ModulA, Line_ModulOnly, Line_Ects75, Line_Inhalt, Line_Bar}

RECURSIVE JoinLines(_)
\* the lines separated by newlines
JoinLines(ls) ==
  IF ls = <<>> THEN <<>>
  ELSE IF Len(ls) = 1 THEN ls[1]
  ELSE ls[1] \o <<NL>> \o JoinLines(Tail(ls))

GenTexts ==
  {JoinLines(ls) : ls \in UNION {[1..n -> LineSet] : n \in 0..MaxLines}}

\* n marker-free characters
Filler(n) == [k \in 1..n |-> "x"]

Name_LA == <<"L","i","n","e","a","r","e"," ","A","l","g","e","b","r","a">>
Name_Analysis == <<"A","n","a","l","y","s","i","s">>
Marker == <<"M","o","d","u","l",":"," ">>

\* the two-module scenario with the filler lines f
TwoModules(f) ==
  Marker \o Name_LA \o <<NL>> \o f \o <<NL>> \o <<"E","C","T","S",":"," ","9">> \o <<NL>>
  \o Marker \o Name_Analysis \o <<NL>> \o f \o <<NL>> \o <<"E","C","T","S",":"," ","6">> \o <<NL>>

FillerLines ==
  {<<".",".",".">>, <<"x",NL,"y"," ","z">>, Filler(LongFill)}

TwoModuleTexts == {TwoModules(f) : f \in FillerLines}

\* one marker, gap characters of filler, then the only ECTS occurrence
MarkerBeforeEcts(name, gap) ==
  Marker \o name \o <<NL>> \o Filler(gap - Len(Marker) - Len(name) - 2)
  \o <<NL>> \o <<"E","C","T","S",":"," ","5">>

ProximityTexts ==
  {MarkerBeforeEcts(n, 100) : n \in {Name_LA, Name_Analysis}}

OtherTexts ==
  { <<"M","o","d","u","l",":"," ","A"," ","E","C","T","S",":"," ","5">>,
    <<"M","o","d","u","l",":"," ","A"," "," ","B">>,
    <<"M","o","d","u","l",":"," ","A",NL,"M","o","d","u","l","n","a","m","e",":"," ","B">>,
    <<"M","o","d","u","l",":"," ",NL,"V","e","r","a","n","s","t","a","l","t","u","n","g","s","a","r","t",":"," ">>,
    <<"M","o","d","u","l",":",TAB,"A",NL,"I","n","h","a","l","t","e",":",NL,"f","o","o",NL,"b","a","r",NL,"b","a","z",NL,"Z","i","e","l","e",":"," ","z",NL,"L","P"," ","7",".","5">>,
    <<"M","o","d","u","l",":"," ","A",NL,"V","o","r","a","u","s","s","e","t","z","u","n","g","e","n",":"," ","k","e","i","n","e",NL,"o","d","e","r"," ","w","e","n","i","g",NL,NL,"I","n","h","a","l","t",":"," ","f","o","o",NL,"b","a","r">>,
    <<"M","o","d","u","l",":"," ","A",NL,"A","r","t",":"," ","S","e","m","i","n","a","r"," ","2",NL,"V","e","r","a","n","s","t","a","l","t","u","n","g","s","a","r","t",":"," ",NL,"M","o","d","u","l",":"," ","B",NL,"e","c","t","s"," ","5">>,
    <<"m","o","d","u","l"," ","a",NL,"M","o","d","u","l",":"," ","B",NL,"e","c","t","s"," ","5",NL,"Z","i","e","l","e",":"," ","z">> }

\* length of the filler of a block that is longer than the excerpt
LongSpan == 2001

\* a block longer than the excerpt, followed by a short one
LongSpanTexts ==
  {Marker \o Name_Analysis \o <<NL>> \o Filler(LongSpan) \o <<NL>> \o Line_ModulA}

\* two modules whose names differ only in a character that normalize_name
\* removes, and two whose names differ only behind the first 50 characters
SameIdTexts ==
  { Marker \o <<"A"," ","B">> \o <<NL>> \o Marker \o <<"A","B">>,
    Marker \o Filler(PseudoIdLen) \o <<"a">> \o <<NL>>
      \o Marker \o Filler(PseudoIdLen) \o <<"b">> }

\* an ECTS occurrence whose window begins behind the start of the text: the
\* marker on a line of its own, and the marker inside the long name of an
\* earlier marker
FarEctsTexts ==
  { Filler(LongFill) \o <<NL>> \o Line_ModulA \o <<NL>> \o Line_Ects75,
    Marker \o Filler(LongFill) \o <<" ">> \o Marker \o <<"B"," ">>
      \o <<"E","C","T","S",":"," ","5">> }

\* a name with two spaces in a row that reaches a record as a seed: through
\* the empty span of a duplicate candidate, and through a span that a
\* proximity candidate cuts off behind 'Modul:'
Name_A_B == <<"A"," "," ","B">>

SeedTexts ==
  { Marker \o Name_A_B \o <<NL>> \o <<"E","C","T","S",":"," ","5">>,
    <<"M","o","d","u","l",":">> \o Marker \o Name_A_B \o <<NL>>
      \o Filler(ContextWindow - 15) \o <<NL>>
      \o <<"E","C","T","S",":"," ","5">> }

Texts ==
  GenTexts \cup TwoModuleTexts \cup ProximityTexts \cup OtherTexts
  \cup LongSpanTexts \cup SameIdTexts \cup FarEctsTexts \cup SeedTexts

(***************************************************************************)
(* The run of find_module_blocks over one text, followed by the mapping    *)
(* of its records to course entries                                        *)
(***************************************************************************)
VARIABLES
  text,              \* the document text
  pc,                \* position of the run
  ects_matches,      \* the matches of ects_pattern
  potential_starts,  \* the candidates
  j,                 \* index of the next ECTS match (second loop)
  i,                 \* index of the next candidate (third loop)
  block_text,        \* block of the latest call of extract_module_info
  start_info,        \* candidate of the latest call
  module_info,       \* result of the latest call: <<record>> or <<>>
  modules,           \* the records collected so far
  result,            \* the dictionary extract_from_pdf returns
  courses,           \* output of extract_courses_from_json
  graph,             \* instance triples built by convert_json_to_rdf
  warnings,          \* warnings printed by the two conversion steps
  pdf_files,         \* run_pdf_extraction: the list of paths
  documents,         \* run_pdf_extraction: the document behind each path
  d,                 \* run_pdf_extraction: index of the next path
  results,           \* run_pdf_extraction: the dictionary path -> result
  run_result         \* run_pdf_extraction: <<returned dictionary>> or <<>>

\* the variables of the conversion steps and of run_pdf_extraction
outVars == <<result, courses, graph, warnings>>
batchVars == <<pdf_files, documents, d, results, run_result>>

vars ==
  <<text, pc, ects_matches, potential_starts, j, i, block_text, start_info,
    module_info, modules, result, courses, graph, warnings, pdf_files,
    documents, d, results, run_result>>

NoStart == [position |-> 0, type |-> "", name |-> None]

\* the path in pdf_files
PdfPath == "data:/modulhandbuch_bachelor_po21_de.pdf"

\* the graph before the first instance triple
NoTriples == [Veranstaltung |-> {}, hatTitel |-> {}, hatECTS |-> {}]

\* run_pdf_extraction has not started
BatchIdle ==
  /\ pdf_files = <<>>
  /\ documents = <<>>
  /\ d = 1
  /\ results = <<>>
  /\ run_result = <<>>

Init ==
  /\ text \in Texts
  /\ pc = "scan"
  /\ ects_matches = <<>>
  /\ potential_starts = <<>>
  /\ j = 1
  /\ i = 1
  /\ block_text = <<>>
  /\ start_info = NoStart
  /\ module_info = <<>>
  /\ modules = <<>>
  /\ result = EmptyResult(PdfPath)
  /\ courses = <<>>
  /\ graph = NoTriples
  /\ warnings = <<>>
  /\ BatchIdle

\* both finditer scans and the first loop
ScanMarkers ==
  /\ pc = "scan"
  /\ ects_matches' = FindIter(ects_pattern, text)
  /\ potential_starts' = DirectCandidates(text)
  /\ pc' = "proximity"
  /\ UNCHANGED <<text, j, i, block_text, start_info, module_info, modules>>
  /\ UNCHANGED <<outVars, batchVars>>

\* one iteration of the loop over ects_matches
ProximityStep ==
  /\ pc = "proximity"
  /\ j <= Len(ects_matches)
  /\ potential_starts' =
       potential_starts \o ProximityCandidate(text, ects_matches[j])
  /\ j' = j + 1
  /\ UNCHANGED <<text, pc, ects_matches, i, block_text, start_info,
                 module_info, modules>>
  /\ UNCHANGED <<outVars, batchVars>>

\* faulty variant: a sort that may exchange two candidates of one position
SortStarts_AnyOrder ==
  /\ pc = "proximity"
  /\ j > Len(ects_matches)
  /\ LET s == SortByPosition(potential_starts)
     IN \E k \in 0..(Len(s) - 1) :
          potential_starts' =
            IF k = 0 \/ s[k].position # s[k + 1].position THEN s
            ELSE [s EXCEPT ![k] = s[k + 1], ![k + 1] = s[k]]
  /\ pc' = "extract"
  /\ UNCHANGED <<text, ects_matches, j, i, block_text, start_info,
                 module_info, modules>>
  /\ UNCHANGED <<outVars, batchVars>>

\* potential_starts.sort(key=position)
SortStarts ==
  /\ pc = "proximity"
  /\ j > Len(ects_matches)
  /\ potential_starts' = SortByPosition(potential_starts)
  /\ pc' = "extract"
  /\ UNCHANGED <<text, ects_matches, j, i, block_text, start_info,
                 module_info, modules>>
  /\ UNCHANGED <<outVars, batchVars>>

\* one iteration of the loop over the sorted candidates
ExtractStep ==
  /\ pc = "extract"
  /\ i <= Len(potential_starts)
  /\ start_info' = potential_starts[i]
  /\ block_text' = BlockText(potential_starts, i, text)
  /\ module_info' = extract_module_info(block_text', start_info'.name)
  /\ modules' = modules \o module_info'
  /\ i' = i + 1
  /\ UNCHANGED <<text, pc, ects_matches, potential_starts, j>>
  /\ UNCHANGED <<outVars, batchVars>>

\* return modules
Return ==
  /\ pc = "extract"
  /\ i > Len(potential_starts)
  /\ pc' = "done"
  /\ UNCHANGED <<text, ects_matches, potential_starts, j, i, block_text,
                 start_info, module_info, modules>>
  /\ UNCHANGED <<outVars, batchVars>>

\* the variables of the run of find_module_blocks, without pc
runVars ==
  <<text, ects_matches, potential_starts, j, i, block_text, start_info,
    module_info, modules>>

\* extract_from_pdf stores the modules and fills the statistics
BuildResult ==
  /\ pc = "done"
  /\ result' = FilledResult(PdfPath, modules)
  /\ pc' = "reported"
  /\ UNCHANGED <<runVars, courses, graph, warnings, batchVars>>

\* the PDF loop of extract_courses_from_json over the returned modules
\* (the except branch of the int() coercion is a bare pass: no warning)
ExtractCourses ==
  /\ pc = "reported"
  /\ courses' = CourseEntries(result.modules)
  /\ pc' = "converted"
  /\ UNCHANGED <<runVars, result, graph, warnings, batchVars>>

\* convert_json_to_rdf over the course entries
ConvertToRdf ==
  /\ pc = "converted"
  /\ graph' = convert_json_to_rdf(courses)
  /\ warnings' = warnings \o ConversionWarnings(courses)
  /\ pc' = "built"
  /\ UNCHANGED <<runVars, result, courses, batchVars>>

Next ==
  \/ ScanMarkers
  \/ ProximityStep
  \/ SortStarts
  \/ ExtractStep
  \/ Return
  \/ BuildResult
  \/ ExtractCourses
  \/ ConvertToRdf

Spec == Init /\ [][Next]_vars

(***************************************************************************)
(* run_pdf_extraction over a list of paths                                 *)
(***************************************************************************)
\* number of paths in the list
MaxDocs == 2

\* the paths a list is drawn from, and the documents behind them
BatchPaths ==
  {PdfPath, "data:/modulhandbuch_master.pdf", "data:/missing.pdf"}

BatchTexts == {Line_ModulA \o <<NL>> \o Line_Ects75, Line_Bar}

Documents ==
  {MissingDocument, UnreadableDocument}
  \cup {ReadableDocument(t) : t \in BatchTexts}

\* find_module_blocks is not running
RunIdle ==
  /\ text = <<>>
  /\ ects_matches = <<>>
  /\ potential_starts = <<>>
  /\ j = 1
  /\ i = 1
  /\ block_text = <<>>
  /\ start_info = NoStart
  /\ module_info = <<>>
  /\ modules = <<>>
  /\ result = EmptyResult(PdfPath)
  /\ courses = <<>>
  /\ graph = NoTriples
  /\ warnings = <<>>

BatchInit ==
  /\ pdf_files \in UNION {[1..n -> BatchPaths] : n \in 0..MaxDocs}
  /\ documents \in [BatchPaths -> Documents]
  /\ d = 1
  /\ results = <<>>
  /\ run_result = <<>>
  /\ pc = "batch"
  /\ RunIdle

\* one iteration of the loop over pdf_files (extract_from_pdf catches every
\* exception itself, so the except branch of the loop is never taken)
ProcessDocument ==
  /\ pc = "batch"
  /\ d <= Len(pdf_files)
  /\ results' = StoreResult(results, pdf_files[d],
                            extract_from_pdf(pdf_files[d], documents[pdf_files[d]]))
  /\ d' = d + 1
  /\ UNCHANGED <<pc, runVars, outVars, pdf_files, documents, run_result>>

\* return {'source': ..., 'data': results, 'count': len(results)}
ReturnResults ==
  /\ pc = "batch"
  /\ d > Len(pdf_files)
  /\ run_result' = <<PdfExtractionResult(results)>>
  /\ pc' = "returned"
  /\ UNCHANGED <<runVars, outVars, pdf_files, documents, d, results>>

BatchNext ==
  \/ ProcessDocument
  \/ ReturnResults

BatchSpec == BatchInit /\ [][BatchNext]_vars

(***************************************************************************)
(* The value normalization applied repeatedly to one value                 *)
(***************************************************************************)
\* length of a raw value
MaxValueLen == 5

RawChars == {" ", NL, TAB, "a"}

RawValues == UNION {[1..n -> RawChars] : n \in 0..MaxValueLen}

NormInit ==
  /\ text \in RawValues
  /\ block_text = text
  /\ pc = "raw"
  /\ ects_matches = <<>>
  /\ potential_starts = <<>>
  /\ j = 1
  /\ i = 1
  /\ start_info = NoStart
  /\ module_info = <<>>
  /\ modules = <<>>
  /\ result = EmptyResult(PdfPath)
  /\ courses = <<>>
  /\ graph = NoTriples
  /\ warnings = <<>>
  /\ BatchIdle

\* the normalization applied to the raw value
NormalizeRaw ==
  /\ pc = "raw"
  /\ block_text' = Normalize(block_text)
  /\ pc' = "normalized"
  /\ UNCHANGED <<text, ects_matches, potential_starts, j, i, start_info,
                 module_info, modules, outVars, batchVars>>

\* the normalization applied to its own output
NormalizeAgain ==
  /\ pc = "normalized"
  /\ block_text' = Normalize(block_text)
  /\ pc' = "renormalized"
  /\ UNCHANGED <<text, ects_matches, potential_starts, j, i, start_info,
                 module_info, modules, outVars, batchVars>>

NormNext ==
  \/ NormalizeRaw
  \/ NormalizeAgain

NormSpec == NormInit /\ [][NormNext]_vars

(***************************************************************************)
(* extract_courses_from_json and convert_json_to_rdf over records that     *)
(* extract_module_info accepts for single blocks                           *)
(***************************************************************************)
\* number of records in the list of modules
MaxModules == 3

\* blocks with the seed they are mined with
SeededBlocks ==
  { <<Line_ModulA, <<"A">>>>,
    <<<<"E","C","T","S",":"," ","5">>, None>>,
    <<Marker \o <<"A"," ","B">> \o <<NL>> \o Line_Ects75, <<"A"," ","B">>>>,
    <<<<>>, <<"A","B">>>>,
    <<<<"L","P"," ","6">>, <<>>>> }

\* the records extract_module_info returns for them
RecordPool ==
  {extract_module_info(b[1], b[2])[1] :
     b \in {sb \in SeededBlocks : extract_module_info(sb[1], sb[2]) # <<>>}}

CourseInit ==
  /\ modules \in UNION {[1..n -> RecordPool] : n \in 0..MaxModules}
  /\ result = FilledResult(PdfPath, modules)
  /\ pc = "reported"
  /\ text = <<>>
  /\ ects_matches = <<>>
  /\ potential_starts = <<>>
  /\ j = 1
  /\ i = 1
  /\ block_text = <<>>
  /\ start_info = NoStart
  /\ module_info = <<>>
  /\ courses = <<>>
  /\ graph = NoTriples
  /\ warnings = <<>>
  /\ BatchIdle

CourseNext ==
  \/ ExtractCourses
  \/ ConvertToRdf

CourseSpec == CourseInit /\ [][CourseNext]_vars

(***************************************************************************)
(* Properties                                                              *)
(***************************************************************************)
\* the run has reached the third loop or is past it
Extracting == pc \in {"extract", "done", "reported", "converted", "built"}

\* the third loop has just called extract_module_info for candidate i - 1
Called == pc = "extract" /\ i > 1

\* the values of the patterns of a field in block, by pattern index
Values(field, block) ==
  [k \in 1..Len(MODULE_PATTERNS[field]) |->
     PatternValue(MODULE_PATTERNS[field][k], block)]

\* the patterns that match, given their values, and those among them
\* whose normalized value is non-empty
MatchingIn(vals) == {k \in DOMAIN vals : vals[k] # None}
NonEmptyIn(vals) == {k \in DOMAIN vals : vals[k] # None /\ vals[k] # <<>>}
Matching(field, block) == MatchingIn(Values(field, block))
NonEmpty(field, block) == NonEmptyIn(Values(field, block))

\* modul_name or ects is resolved for the block after rule evaluation
SpanResolved(block, seed) ==
  \/ Truthy(seed)
  \/ NonEmpty("modul_name", block) # {}
  \/ NonEmpty("ects", block) # {}

\* the first k spans that resolve, in order
RECURSIVE ResolvedSpans(_, _, _)
ResolvedSpans(starts, k, txt) ==
  IF k = 0 THEN <<>>
  ELSE ResolvedSpans(starts, k - 1, txt)
       \o (IF SpanResolved(BlockText(starts, k, txt), starts[k].name)
           THEN <<k>> ELSE <<>>)

\* C1: a span contributes a record to modules if and only if its modul_name
\* or its ects is resolved (non-null, non-empty) after rule evaluation;
\* otherwise extract_module_info returns None and nothing is appended.
C1_AcceptanceLaw ==
  Extracting =>
    LET spans == ResolvedSpans(potential_starts, i - 1, text)
    IN /\ Len(modules) = Len(spans)
       /\ \A k \in 1..Len(spans) :
            modules[k]["raw_text"] =
              Slice(BlockText(potential_starts, spans[k], text), 0, RawTextCap)
       /\ i > 1 =>
            (module_info # <<>> <=> SpanResolved(block_text, start_info.name))

\* C1 witness: the run is over, one span was rejected and another accepted
C1_Witness ==
  /\ pc = "done"
  /\ \E k \in 1..Len(potential_starts) :
       ~SpanResolved(BlockText(potential_starts, k, text), potential_starts[k].name)
  /\ Len(modules) >= 1

\* the sorted list holds two candidates with the same position
DuplicateAt(k) ==
  /\ k + 1 <= Len(potential_starts)
  /\ potential_starts[k].position = potential_starts[k + 1].position

\* C2: when two candidates of the sorted list have the same position, the
\* zero-length span of the earlier one is rejected by the acceptance
\* predicate, so duplicate boundaries add no record to the output.
C2_DuplicateRejected ==
  /\ Called /\ DuplicateAt(i - 1) => module_info = <<>>
  /\ pc = "done" =>
       Len(modules) <= Cardinality({potential_starts[k].position :
                                      k \in 1..Len(potential_starts)})

Text_ECTS9 == <<"9">>
Text_ECTS6 == <<"6">>

\* C3: the two-module text yields exactly two records, in order, named
\* 'Lineare Algebra' and 'Analysis', with credit values 9 and 6.
C3_TwoModuleScenario ==
  pc = "done" /\ text \in TwoModuleTexts =>
    /\ Len(modules) = 2
    /\ modules[1]["modul_name"] = Name_LA
    /\ modules[1]["ects"] = Text_ECTS9
    /\ modules[2]["modul_name"] = Name_Analysis
    /\ modules[2]["ects"] = Text_ECTS6

\* C4: a text whose only ECTS occurrence has one marker 100 characters
\* before it yields exactly one record, named as the marker captured.
C4_ProximityScenario ==
  pc = "done" =>
    \A n \in {Name_LA, Name_Analysis} :
      text = MarkerBeforeEcts(n, 100) =>
        Len(modules) = 1 /\ modules[1]["modul_name"] = n

\* a credit value written with a decimal separator, and its integer part
HasSeparator(v) == \E k \in 1..Len(v) : v[k] \in {".", ","}
IntegerPart(v) ==
  SubSeq(v, 1, Min({k \in 1..Len(v) : v[k] \in {".", ","}}) - 1)

\* C5: a credit value matched with a decimal separator reaches the course
\* entry of its module as the integer part (7 for '7,5' and '7.5').
C5_NumericTruncation ==
  pc = "converted" =>
    \A k \in 1..Len(modules) :
      Truthy(modules[k]["ects"]) /\ HasSeparator(modules[k]["ects"]) =>
        \E c \in 1..Len(courses) :
          /\ courses[c].titel = modules[k]["modul_name"]
          /\ courses[c].ects = <<DecimalValue(IntegerPart(modules[k]["ects"]))>>

\* C6 as claimed: whenever two patterns of a field match in the span, the
\* field's value in the record is the value of the first matching pattern.
C6_PriorityLaw ==
  Called /\ module_info # <<>> =>
    \A f \in FieldSet :
      LET vals == Values(f, block_text)
          m == MatchingIn(vals)
      IN Cardinality(m) >= 2 => module_info[1][f] = vals[Min(m)]

\* C6 amended: whenever two patterns of a field match in the span and the
\* first matching pattern has a non-empty normalized value, the field's
\* value in the record is that value and never a later pattern's.
C6_PriorityLawNonEmpty ==
  Called /\ module_info # <<>> =>
    \A f \in FieldSet :
      LET vals == Values(f, block_text)
          m == MatchingIn(vals)
      IN Cardinality(m) >= 2 /\ vals[Min(m)] # <<>> =>
           module_info[1][f] = vals[Min(m)]

\* C6 witness: two patterns of a field match with different non-empty
\* values and the record holds the value of the first one
C6_Witness ==
  /\ Called /\ module_info # <<>>
  /\ \E f \in FieldSet :
       LET vals == Values(f, block_text)
           m == MatchingIn(vals)
       IN /\ Cardinality(m) >= 2
          /\ vals[Min(m)] # <<>>
          /\ \E k \in m : vals[k] # <<>> /\ vals[k] # vals[Min(m)]
          /\ module_info[1][f] = vals[Min(m)]

BlockFields == {"voraussetzungen", "inhalte", "lernziele"}

\* a label-like line starts behind the newline at position q: a capital
\* letter, further letters, a colon
LabelLineAt(block, q) ==
  /\ q + 1 <= Len(block)
  /\ block[q] = NL
  /\ block[q + 1] \in {UpperLetters[k] : k \in 1..Len(UpperLetters)}
  /\ LET word == RunLen("AZ", block, q + 1)
     IN q + 1 + word <= Len(block) /\ block[q + 1 + word] = ":"

\* the text of a block field from position from up to the next label-like
\* line or the end of the span
Extent(block, from) ==
  SubSeq(block, from,
         Min({q \in from..Len(block) : LabelLineAt(block, q)}
             \cup {Len(block) + 1}) - 1)

\* several non-empty lines: a newline inside, no empty line
SeveralLines(s) ==
  /\ \E k \in 1..Len(s) : s[k] = NL
  /\ \A k \in 1..(Len(s) - 1) : ~(s[k] = NL /\ s[k + 1] = NL)

\* C7: the value of a multi-line block field holds all the lines from its
\* label up to, not including, the next label-like line or the end of the
\* span, whitespace-collapsed.
C7_BlockExtent ==
  Called /\ module_info # <<>> =>
    \A f \in BlockFields :
      LET ks == NonEmpty(f, block_text)
          m == Search(MODULE_PATTERNS[f][Min(ks)], block_text)
          lines == Strip(Extent(block_text, m.gs))
      IN ks # {} /\ SeveralLines(lines) =>
           module_info[1][f] = Collapse(lines)

\* C8: for an ECTS occurrence whose window holds marker matches, the
\* candidate of that occurrence is positioned at the marker match nearest
\* to the occurrence (the last one in the window).
C8_NearestMarker ==
  pc = "proximity" /\ j > 1 =>
    LET e == ects_matches[j - 1].start - 1
        start_pos == IF e - ContextWindow > 0 THEN e - ContextWindow ELSE 0
        window == Slice(text, start_pos, e)
        marks == {p \in 1..Len(window) :
                    MatchAt(modul_start_pattern, window, p) # Fail}
    IN marks # {} =>
         /\ potential_starts # <<>>
         /\ potential_starts[Len(potential_starts)].type = "ects_near_modul"
         /\ potential_starts[Len(potential_starts)].position
              = start_pos + Max(marks) - 1

\* C9: with a non-null default_name and a modul_name pattern that yields a
\* non-empty value in the span, the record's modul_name is the value of the
\* first such pattern in list order, not the seed.
C9_SeedOverwrite ==
  Called =>
    LET ks == NonEmpty("modul_name", block_text)
    IN start_info.name # None /\ ks # {} =>
         /\ module_info # <<>>
         /\ module_info[1]["modul_name"]
              = Values("modul_name", block_text)[Min(ks)]

\* C9 witness: a call with a non-empty seed whose record carries a
\* different name, taken from the span
C9_Witness ==
  /\ Called
  /\ Truthy(start_info.name)
  /\ NonEmpty("modul_name", block_text) # {}
  /\ module_info # <<>>
  /\ module_info[1]["modul_name"] # start_info.name

\* C10 as claimed: with a non-null default_name and no modul_name pattern
\* yielding a non-empty value, the record is accepted and its modul_name is
\* default_name.
C10_SeedPrefill ==
  Called =>
    (start_info.name # None /\ NonEmpty("modul_name", block_text) = {} =>
       module_info # <<>> /\ module_info[1]["modul_name"] = start_info.name)

\* C10 amended: with a non-empty default_name and no modul_name pattern
\* yielding a non-empty value, the record is accepted and its modul_name is
\* default_name; with an empty default_name a record, if any, keeps the
\* empty name.
C10_SeedPrefillNonEmpty ==
  Called =>
    (start_info.name # None /\ NonEmpty("modul_name", block_text) = {} =>
       /\ Truthy(start_info.name) => module_info # <<>>
       /\ module_info # <<>> => module_info[1]["modul_name"] = start_info.name)

\* C10 witness: the empty span of a duplicate candidate, accepted with the
\* seed as its name
C10_Witness ==
  /\ Called
  /\ Truthy(start_info.name)
  /\ block_text = <<>>
  /\ module_info # <<>>
  /\ module_info[1]["modul_name"] = start_info.name

\* the positions of the candidates are in non-decreasing order
Ascending(starts) ==
  \A a, b \in 1..Len(starts) :
    a < b => starts[a].position <= starts[b].position

\* raw is what the text holds from offset start on
ExcerptAt(raw, start) == SubSeq(text, start + 1, start + Len(raw)) = raw

\* C11: the records returned by find_module_blocks are in non-decreasing
\* order of the start position of the span each was extracted from.
C11_BoundaryOrdering ==
  Extracting =>
    LET spans == ResolvedSpans(potential_starts, i - 1, text)
        start(k) == potential_starts[spans[k]].position
    IN /\ Len(modules) = Len(spans)
       /\ \A k \in 1..Len(spans) : ExcerptAt(modules[k]["raw_text"], start(k))
       /\ \A a, b \in 1..Len(spans) : a < b => start(a) <= start(b)

\* C11 witness: the run is over, a proximity candidate was sorted in front of
\* a direct candidate of a larger position, and both spans gave a record
C11_Witness ==
  /\ pc = "done"
  /\ Len(modules) >= 2
  /\ \E k \in 1..(Len(potential_starts) - 1) :
       /\ potential_starts[k].type = "ects_near_modul"
       /\ potential_starts[k + 1].type = "modul_keyword"
       /\ potential_starts[k].position < potential_starts[k + 1].position
       /\ SpanResolved(BlockText(potential_starts, k, text),
                       potential_starts[k].name)
       /\ SpanResolved(BlockText(potential_starts, k + 1, text),
                       potential_starts[k + 1].name)

\* the offset at which the k-th span ends: the position of the next
\* candidate, the length of the text for the last candidate
NextPosition(k) ==
  IF k < Len(potential_starts) THEN potential_starts[k + 1].position
  ELSE Len(text)

\* C12: the i-th span is exactly [position_i, position_(i+1)) and the last
\* span is [position_last, len(text)); the spans therefore do not overlap,
\* have start <= end and cover the text from the first candidate to its end
\* without a gap.
C12_SpanDerivation ==
  /\ Extracting =>
       \A k \in 1..Len(potential_starts) :
         /\ 0 <= potential_starts[k].position
         /\ potential_starts[k].position <= NextPosition(k)
         /\ NextPosition(k) <= Len(text)
  /\ Called =>
       block_text =
         SubSeq(text, potential_starts[i - 1].position + 1, NextPosition(i - 1))

\* C12 witness: the loop has just cut a non-empty span that ends where the
\* next candidate starts, in a text that begins before the first candidate
C12_Witness ==
  /\ Called
  /\ i - 1 < Len(potential_starts)
  /\ block_text # <<>>
  /\ potential_starts[1].position > 0
  /\ NextPosition(i - 1) < Len(text)

\* the ECTS match m has a marker match in its backward window
MarkerInWindow(m) ==
  LET e == m.start - 1
      s == IF e - ContextWindow > 0 THEN e - ContextWindow ELSE 0
      window == SubSeq(text, s + 1, e)
  IN \E p \in 1..Len(window) : MatchAt(modul_start_pattern, window, p) # Fail

\* the candidates of one strategy
OfType(type) ==
  {k \in 1..Len(potential_starts) : potential_starts[k].type = type}

\* C13: the candidate list holds exactly one entry per direct-marker match
\* plus one entry per ECTS occurrence that has a marker match in its backward
\* window, sorted ascending by position; candidates with equal positions are
\* all kept, and the number of spans equals the number of candidates.
C13_MergeRule ==
  Extracting =>
    LET direct == FindIter(modul_start_pattern, text)
        near == {k \in 1..Len(ects_matches) : MarkerInWindow(ects_matches[k])}
    IN /\ Cardinality(OfType("modul_keyword")) = Len(direct)
       /\ \A k \in 1..Len(direct) :
            \E c \in OfType("modul_keyword") :
              potential_starts[c].position = direct[k].start - 1
       /\ Cardinality(OfType("ects_near_modul")) = Cardinality(near)
       /\ Len(potential_starts) = Len(direct) + Cardinality(near)
       /\ Ascending(potential_starts)
       /\ pc # "extract" => i - 1 = Len(potential_starts)

\* C13 witness: the run is over; one ECTS occurrence had no marker in its
\* window, another gave a candidate at the position of a direct candidate
C13_Witness ==
  /\ pc = "done"
  /\ \E k \in 1..Len(ects_matches) : ~MarkerInWindow(ects_matches[k])
  /\ \E k \in 1..Len(potential_starts) :
       /\ DuplicateAt(k)
       /\ potential_starts[k].type # potential_starts[k + 1].type

\* the offsets (as positions) at which the marker pattern matches the text
MarkerOccurrences ==
  {p \in 1..Len(text) : MatchAt(modul_start_pattern, text, p) # Fail}

\* the direct strategy gave a candidate for the occurrence at p, with the
\* name captured there
Emitted(p) ==
  \E c \in OfType("modul_keyword") :
    /\ potential_starts[c].position = p - 1
    /\ potential_starts[c].name =
         Strip(Group(text, MatchAt(modul_start_pattern, text, p)))

\* p lies behind the first character of the match of a direct candidate:
\* inside its marker, its separator or its name
Covered(p) ==
  \E c \in OfType("modul_keyword") :
    LET q == potential_starts[c].position + 1
    IN q < p /\ p < MatchAt(modul_start_pattern, text, q).pos

\* C14: for every occurrence in the text of the marker 'Modul' followed by
\* at least one colon/whitespace character and a name, including occurrences
\* inside the name or separator of an earlier marker match, the direct
\* strategy emits a candidate at that offset with the captured name.
C14_DirectMarkerCompleteness ==
  Extracting => \A p \in MarkerOccurrences : Emitted(p)

\* C14 as amended: an occurrence gets a direct candidate with its captured
\* name exactly when it does not lie inside the match of another direct
\* candidate; every direct candidate stands at an occurrence.
C14_DirectMarkerScan ==
  Extracting =>
    /\ \A p \in MarkerOccurrences : Emitted(p) <=> ~Covered(p)
    /\ \A c \in OfType("modul_keyword") :
         potential_starts[c].position + 1 \in MarkerOccurrences

\* C14 witness: the scans are done, one occurrence got its candidate and
\* another one lies inside that candidate's match
C14_Witness ==
  /\ Extracting
  /\ \E p, q \in MarkerOccurrences :
       /\ Emitted(q) /\ ~Emitted(p)
       /\ q < p
       /\ p < MatchAt(modul_start_pattern, text, q).pos

\* the offset at which the backward window of the ECTS match m begins
WindowStart(m) ==
  IF m.start - 1 - ContextWindow > 0 THEN m.start - 1 - ContextWindow ELSE 0

\* C15: an ECTS occurrence with no marker match inside its 500-character
\* backward window contributes no candidate, hence no span and no record,
\* even when a marker exists further back in the text.
C15_NoMarkerNoCandidate ==
  [][(/\ pc = "proximity"
      /\ j <= Len(ects_matches)
      /\ ~MarkerInWindow(ects_matches[j]))
     => /\ potential_starts' = potential_starts
        /\ modules' = modules
        /\ j' = j + 1]_vars

\* C15 witness: the proximity loop has just passed an ECTS occurrence whose
\* window holds no marker while a marker stands before the window, and the
\* list still holds the direct candidates only
C15_Witness ==
  /\ pc = "proximity"
  /\ j > 1
  /\ ~MarkerInWindow(ects_matches[j - 1])
  /\ \E p \in MarkerOccurrences : p - 1 < WindowStart(ects_matches[j - 1])
  /\ potential_starts # <<>>
  /\ OfType("ects_near_modul") = {}

\* C16: for every accepted record, raw_text is exactly the first
\* min(2000, len(span)) characters of the span the record was extracted
\* from, and its length never exceeds 2000.
C16_ExcerptRetention ==
  /\ Called /\ module_info # <<>> =>
       module_info[1]["raw_text"] =
         SubSeq(block_text, 1, Min({RawTextCap, Len(block_text)}))
  /\ \A k \in 1..Len(modules) : Len(modules[k]["raw_text"]) <= RawTextCap

\* C16 witness: a record was accepted for a span longer than 2000
\* characters and holds an excerpt of 2000 characters
C16_Witness ==
  /\ Called
  /\ module_info # <<>>
  /\ Len(block_text) > RawTextCap
  /\ Len(module_info[1]["raw_text"]) = RawTextCap
  /\ modules[Len(modules)] = module_info[1]

\* the paths of the list
InputPaths == {pdf_files[k] : k \in 1..Len(pdf_files)}

\* the document behind a path cannot be mined
Failing(p) == ~documents[p].exists \/ ~documents[p].readable

\* the entry of a path holds the modules extracted from its document
HoldsModules(entry, p) ==
  /\ "modules" \in DOMAIN entry
  /\ "error" \notin DOMAIN entry
  /\ entry.modules = find_module_blocks(documents[p].text)

\* the entry of a path holds an explicit error payload
HoldsError(entry) ==
  /\ "error" \in DOMAIN entry
  /\ "modules" \in DOMAIN entry => entry.modules = <<>>

\* C17: after run_pdf_extraction over any list of paths of which any subset
\* is missing or fails during text extraction, the result has an entry for
\* every input path, each entry holding either the extracted modules or an
\* explicit error payload; count is the number of input paths (the number of
\* different paths: the entries are keyed by path), and a failing document
\* never prevents later documents from being processed.
C17_ErrorIsolation ==
  /\ pc = "batch" =>
       /\ DOMAIN results = {pdf_files[k] : k \in 1..(d - 1)}
       /\ \A p \in DOMAIN results :
            IF Failing(p) THEN HoldsError(results[p])
            ELSE HoldsModules(results[p], p)
  /\ pc = "returned" =>
       LET out == run_result[1]
       IN /\ DOMAIN out.data = InputPaths
          /\ out.count = Cardinality(InputPaths)
          /\ \A p \in InputPaths :
               IF Failing(p) THEN HoldsError(out.data[p])
               ELSE HoldsModules(out.data[p], p)

\* C17 witness: the run has returned; the first document of the list failed
\* during text extraction, the second one was mined, a third path is missing
C17_Witness ==
  /\ pc = "returned"
  /\ Len(pdf_files) = 2
  /\ documents[pdf_files[1]].exists /\ ~documents[pdf_files[1]].readable
  /\ ~Failing(pdf_files[2])
  /\ Len(run_result[1].data[pdf_files[2]].modules) > 0
  /\ run_result[1].count = 2
  /\ \E p \in BatchPaths : ~documents[p].exists

\* the credit value of a record cannot be coerced to an integer
Malformed(module) ==
  Truthy(module["ects"]) /\ IntOrNone(module["ects"]) = <<>>

\* C18: when a module's credit value fails integer coercion, the credit field
\* of that module is left null, a warning is surfaced on the diagnostic
\* channel, the module itself is still emitted and the remaining modules are
\* processed.
C18_MalformedNumericRecovery ==
  pc = "built" =>
    \A k \in 1..Len(result.modules) :
      Truthy(result.modules[k]["modul_name"]) /\ Malformed(result.modules[k]) =>
        /\ \E c \in 1..Len(courses) :
             /\ courses[c].titel = result.modules[k]["modul_name"]
             /\ courses[c].ects = <<>>
        /\ Len(courses) = CountWith(result.modules, "modul_name")
        /\ warnings # <<>>

\* the candidate list is empty
NoCandidate == potential_starts = <<>>

\* the result of extract_from_pdf is available
Reported == pc \in {"reported", "converted", "built"}

\* C19: when the text contains no direct or proximity candidate,
\* find_module_blocks returns the empty list without raising, and
\* extract_from_pdf returns a result with modules = [], all three statistics
\* equal to 0 and no 'error' key.
C19_NoRecordsOutcome ==
  /\ Extracting /\ NoCandidate => modules = <<>>
  /\ Reported /\ NoCandidate =>
       /\ result.modules = <<>>
       /\ result.statistics.total_modules_found = 0
       /\ result.statistics.modules_with_ects = 0
       /\ result.statistics.modules_with_name = 0
       /\ "error" \notin DOMAIN result

\* C19 witness: extract_from_pdf has returned for a non-empty text with an
\* ECTS occurrence but without any candidate
C19_Witness ==
  /\ pc = "reported"
  /\ NoCandidate
  /\ ects_matches # <<>>
  /\ DOMAIN result = {"source_file", "modules", "statistics"}

\* C20: in every error-free result of extract_from_pdf, total_modules_found
\* is the number of returned records, modules_with_name the number of records
\* whose modul_name is non-null and modules_with_ects the number of records
\* whose ects is non-null.
C20_AggregateCounts ==
  Reported /\ "error" \notin DOMAIN result =>
    LET n == Len(result.modules)
    IN /\ result.modules = modules
       /\ result.statistics.total_modules_found = n
       /\ result.statistics.modules_with_name =
            Cardinality({k \in 1..n : result.modules[k]["modul_name"] # None})
       /\ result.statistics.modules_with_ects =
            Cardinality({k \in 1..n : result.modules[k]["ects"] # None})

\* C20 witness: a result with several records, some of them without ects
C20_Witness ==
  /\ pc = "reported"
  /\ result.statistics.total_modules_found >= 2
  /\ result.statistics.modules_with_ects >= 1
  /\ result.statistics.modules_with_ects < result.statistics.modules_with_name

\* among candidates of one position, those of the direct strategy stand in
\* front of those of the proximity strategy (the order of insertion)
InsertionOrderKept ==
  \A a, b \in 1..Len(potential_starts) :
    (a < b /\ potential_starts[a].position = potential_starts[b].position)
      => ~(/\ potential_starts[a].type = "ects_near_modul"
           /\ potential_starts[b].type = "modul_keyword")

\* C21: for a fixed text and the fixed MODULE_PATTERNS table, every run of
\* find_module_blocks returns the same record list (same records, same field
\* values, same order), including the relative order of the records that
\* come from candidates with equal positions.
C21_Determinism ==
  /\ Extracting => potential_starts = Candidates(text) /\ InsertionOrderKept
  /\ pc = "done" => modules = find_module_blocks(text)

\* C21 witness: the run is over; two candidates of one position carried
\* different seeds and each of them gave a record
C21_Witness ==
  /\ pc = "done"
  /\ \E k \in 1..Len(potential_starts) :
       /\ DuplicateAt(k)
       /\ potential_starts[k].name # potential_starts[k + 1].name
       /\ Truthy(potential_starts[k].name)
       /\ Truthy(potential_starts[k + 1].name)
  /\ Len(modules) >= 2
  /\ modules[1]["raw_text"] # modules[2]["raw_text"]

\* the fields that are not seeded
PlainFields == FieldSet \ {"modul_name"}

\* C22: for every field other than modul_name, if none of the field's
\* patterns matches in the span, the field is null in the returned record
\* (extract_module_info does not raise); the absence of one field leaves
\* the other fields with the values their own patterns give.
C22_AbsentField ==
  Called /\ module_info # <<>> =>
    \A f \in PlainFields :
      LET vals == Values(f, block_text)
      IN /\ MatchingIn(vals) = {} => module_info[1][f] = None
         /\ NonEmptyIn(vals) # {} =>
              module_info[1][f] = vals[Min(NonEmptyIn(vals))]

\* C22 witness: a returned record in which one unseeded field is absent for
\* want of a match and another one holds a value
C22_Witness ==
  /\ Called
  /\ module_info # <<>>
  /\ \E f, g \in PlainFields :
       /\ Matching(f, block_text) = {}
       /\ module_info[1][f] = None
       /\ NonEmpty(g, block_text) # {}
       /\ module_info[1][g] # None

\* C23: applying the value normalization (trim, then collapse every
\* whitespace run to one space) to a value that is already an output of the
\* normalization returns the same value.
C23_IdempotentNormalization ==
  [][pc = "normalized" => block_text' = block_text]_vars

\* C23 witness: the normalization was applied twice to a raw value that it
\* had to trim and to collapse
C23_Witness ==
  /\ pc = "renormalized"
  /\ text # <<>>
  /\ text[1] \in Whitespace \/ text[Len(text)] \in Whitespace
  /\ \E k \in 1..(Len(text) - 3) :
       /\ text[k] = "a"
       /\ text[k + 1] \in Whitespace /\ text[k + 2] \in Whitespace
       /\ text[k + 3] = "a"
  /\ block_text = <<"a", " ", "a">>

\* C24: a pattern that matches with an empty normalized value does not end
\* the scan of its field; the value assigned is that of the first pattern in
\* list order whose match normalizes to a non-empty string, and once such a
\* pattern is found no later pattern of the field is evaluated.
C24_EmptyValueFallThrough ==
  Called /\ module_info # <<>> =>
    \A f \in FieldSet :
      LET vals == Values(f, block_text)
          ne == NonEmptyIn(vals)
          last == IF ne = {} THEN Len(vals) ELSE Min(ne)
      IN /\ ne # {} => module_info[1][f] = vals[Min(ne)]
         /\ ne = {} =>
              module_info[1][f] =
                IF f = "modul_name" THEN start_info.name ELSE None
         /\ PatternsTried(MODULE_PATTERNS[f], 1, block_text)
              = [k \in 1..last |-> k]

\* C24 witness: in a returned record a field's first matching pattern gave
\* an empty value, a later pattern gave the value of the record, and a
\* pattern behind that one, matching with another value, was not evaluated
C24_Witness ==
  /\ Called /\ module_info # <<>>
  /\ \E f \in FieldSet :
       LET vals == Values(f, block_text)
           ne == NonEmptyIn(vals)
       IN /\ ne # {}
          /\ \E k \in MatchingIn(vals) : k < Min(ne) /\ vals[k] = <<>>
          /\ \E k \in ne : k > Min(ne) /\ vals[k] # vals[Min(ne)]
          /\ module_info[1][f] = vals[Min(ne)]
          /\ Len(PatternsTried(MODULE_PATTERNS[f], 1, block_text)) = Min(ne)

\* the titles the graph holds for a node
TitlesOf(id) == {t \in graph.hatTitel : t[1] = id}

\* C25: in the graph built by convert_json_to_rdf from a course list
\* produced by extract_courses_from_json, every node typed hhu:Veranstaltung
\* has exactly one hhu:hatTitel value, also when several PDF modules have
\* names that share the first 50 characters or differ only in characters
\* removed by normalize_name.
C25_ExactlyOneTitle ==
  pc = "built" =>
    \A id \in graph.Veranstaltung : Cardinality(TitlesOf(id)) = 1

\* the records of the result that have a non-empty modul_name
Named ==
  {k \in 1..Len(result.modules) :
     /\ result.modules[k]["modul_name"] # None
     /\ result.modules[k]["modul_name"] # <<>>}

\* the n-th of them
NthNamed(n) ==
  CHOOSE k \in Named : Cardinality({m \in Named : m <= k}) = n

\* C26: the graph mapping keeps a PDF record if and only if its modul_name
\* is non-empty: every accepted record with a name yields exactly one course
\* entry in the output of extract_courses_from_json, and a record accepted
\* only because its ects resolved (no name) yields none.
C26_NamedRecordsKept ==
  pc \in {"converted", "built"} =>
    /\ Len(courses) = Cardinality(Named)
    /\ \A n \in 1..Len(courses) :
         courses[n].titel = result.modules[NthNamed(n)]["modul_name"]

\* C26 witness: the list held a record with a name, a record with ects and
\* no name and a record with ects and an empty name, and only the first
\* one gave a course entry
C26_Witness ==
  /\ pc = "converted"
  /\ Len(result.modules) = 3
  /\ Cardinality(Named) = 1
  /\ \E k \in 1..3 :
       /\ result.modules[k]["modul_name"] = None
       /\ Truthy(result.modules[k]["ects"])
  /\ \E k \in 1..3 :
       /\ result.modules[k]["modul_name"] = <<>>
       /\ Truthy(result.modules[k]["ects"])
  /\ Len(courses) = 1

\* C27: every candidate emitted for an ECTS occurrence at offset e has a
\* position p with max(0, e - 500) <= p < e, and the marker match that
\* produced it lies entirely inside [max(0, e - 500), e).
C27_WindowBound ==
  [][(/\ pc = "proximity"
      /\ j <= Len(ects_matches)
      /\ potential_starts' # potential_starts)
     => LET e == ects_matches[j].start - 1
            c == potential_starts'[Len(potential_starts')]
            before == SubSeq(text, 1, e)
            m == MatchAt(modul_start_pattern, before, c.position + 1)
        IN /\ Len(potential_starts') = Len(potential_starts) + 1
           /\ WindowStart(ects_matches[j]) <= c.position
           /\ c.position < e
           /\ m # Fail
           /\ m.pos - 1 <= e
           /\ c.name = Strip(Group(before, m))]_vars

\* C27 witness: the proximity loop has just emitted a candidate for an ECTS
\* occurrence whose window begins behind the start of the text
C27_Witness ==
  /\ pc = "proximity"
  /\ j > 1
  /\ WindowStart(ects_matches[j - 1]) > 0
  /\ MarkerInWindow(ects_matches[j - 1])
  /\ potential_starts # <<>>
  /\ potential_starts[Len(potential_starts)].type = "ects_near_modul"
  /\ potential_starts[Len(potential_starts)].position
       >= WindowStart(ects_matches[j - 1])

\* C28: each position emitted by the proximity strategy is also the position
\* of a candidate emitted by the direct strategy, so the distinct span start
\* positions are the direct-marker positions.
C28_ProximityDuplicatesDirect ==
  Extracting =>
    \A k \in OfType("ects_near_modul") :
      \E c \in OfType("modul_keyword") :
        potential_starts[c].position = potential_starts[k].position

\* a value is whitespace-normalized: non-empty, no whitespace at either
\* end, no newline or tab, no two whitespace characters in a row
WhitespaceNormalized(v) ==
  /\ v # <<>>
  /\ v[1] \notin Whitespace
  /\ v[Len(v)] \notin Whitespace
  /\ \A k \in 1..Len(v) : v[k] \notin {NL, TAB}
  /\ \A k \in 1..(Len(v) - 1) :
       ~(v[k] \in Whitespace /\ v[k + 1] \in Whitespace)

\* C29: every non-null field value other than raw_text in a record returned
\* by find_module_blocks is whitespace-normalized, modul_name also when it
\* comes from the seed of the boundary detector.
C29_ValuesNormalized ==
  pc = "done" =>
    \A k \in 1..Len(modules) :
      \A f \in FieldSet :
        modules[k][f] # None => WhitespaceNormalized(modules[k][f])

====
